---------------------------- MODULE Spec2Model ----------------------------
(***************************************************************************)
(* A model of sqlex (atani/sqlex): the token-case corrector (fix_content   *)
(* and the fix command's loop over files) and the diagnostic hint engine   *)
(* (analyze_error).                                                        *)
(*                                                                         *)
(* Text is a TLA+ string, read as a sequence of characters (Len, SubSeq    *)
(* and \o work on strings in TLC).  Rust strings are UTF-8: the code mixes *)
(* character counts (sqlparser's Location.column, str::chars) with byte    *)
(* counts (str::len, String::replace_range, build_line_offsets), so each   *)
(* character has a width in bytes.  Every character of the model is ASCII  *)
(* (one byte) except three that the module writes with ASCII stand-ins:    *)
(*     "^"  is U+00E9 (e with acute accent), two bytes, alphabetic;        *)
(*     "&"  is U+00C9, its upper-case form, two bytes, alphabetic;         *)
(*     "~"  is U+017F (long s), two bytes, alphabetic and lower-case; its  *)
(*          upper-case form is the ASCII letter S.                         *)
(***************************************************************************)
EXTENDS Integers, Sequences, FiniteSets, TLC

VARIABLES
    \* fix_content applied to one text (checker.rs:244-291)
    content,     \* the text passed in
    staged,      \* `result` after the keyword pass (checker.rs:282)
    out,         \* the text returned (checker.rs:290)
    again,       \* the text returned by fix_content applied to `out`
    pc,          \* "start", "fixed", "fixed_again", "panicked", "panicked_again"
    \* the fix command (checker.rs:176-217)
    original,    \* the content of each file when the run starts
    disk,        \* the content of each file now
    perm,        \* per file: "ok", "unreadable" (fs::read_to_string fails)
                 \* or "readonly" (fs::write fails)
    dry_run,     \* --dry-run
    format,      \* --format: "summary" or "diff"
    next_file,   \* the index of the file the loop handles next
    printed,     \* what the run printed about files, in order
    run,         \* "running", "ok", "error" (an Err returned) or "panic"
    \* the hint engine (hints.rs:18-121)
    error_msg, source, error_line,   \* the arguments of analyze_error
    hint,        \* what it returned
    hpc,         \* "start" or "done"
    \* the run of a command over the collected files (checker.rs:111-217, 336-399)
    mode,        \* the command: "check", "fix" or "lint"
    total,       \* total_errors (check) or total_warnings (lint)
    \* Linter::lint applied to one text (linter.rs:60-86)
    lsql,        \* the text (the argument sql)
    config,      \* the LintConfig
    warnings,    \* the Vec<LintError> returned
    lpc,         \* "start" or "done"
    \* the position mapper applied to one position (checker.rs:221-240,
    \* linter.rs:240-255)
    ptext,       \* the text
    pline, pcol, \* a 1-based line and column
    ptable,      \* build_line_offsets(ptext)
    pos,         \* location_to_byte_offset(ptable, pline, pcol)
    back,        \* pos_to_line_col(ptext, pos)
    ppc,         \* "start", "built", "mapped" or "back"
    \* the replacement loop applied to one list of replacements
    \* (checker.rs:272-277)
    rtext,       \* the text (`result` before the loop)
    rlist,       \* the replacements, as collected
    rout,        \* `result` after the loop
    rpc          \* "start", "applied" or "panicked"

fixContentVars == <<content, staged, out, again, pc>>
fixRunVars ==
    <<original, disk, perm, dry_run, format, next_file, printed, run, mode, total>>
hintVars == <<error_msg, source, error_line, hint, hpc>>
lintVars == <<lsql, config, warnings, lpc>>
posVars == <<ptext, pline, pcol, ptable, pos, back, ppc>>
replVars == <<rtext, rlist, rout, rpc>>
vars == <<fixContentVars, fixRunVars, hintVars, lintVars, posVars, replVars>>

-----------------------------------------------------------------------------
(* Characters and strings                                                  *)

E_ACUTE == "^"
E_ACUTE_UPPER == "&"
LONG_S == "~"

Char(s, i) == SubSeq(s, i, i)

LowerLetters == "abcdefghijklmnopqrstuvwxyz"
UpperLetters == "ABCDEFGHIJKLMNOPQRSTUVWXYZ"

LowerSet == {Char(LowerLetters, i) : i \in 1..Len(LowerLetters)}
UpperSet == {Char(UpperLetters, i) : i \in 1..Len(UpperLetters)}

\* char::len_utf8
Width(c) == IF c \in {E_ACUTE, E_ACUTE_UPPER, LONG_S} THEN 2 ELSE 1

\* char::to_uppercase, on the characters of the model
UpperMap ==
    [c \in LowerSet |->
        Char(UpperLetters, CHOOSE i \in 1..Len(LowerLetters) : Char(LowerLetters, i) = c)]
    @@ (E_ACUTE :> E_ACUTE_UPPER) @@ (LONG_S :> "S")

UpperChar(c) == IF c \in DOMAIN UpperMap THEN UpperMap[c] ELSE c

\* str::to_uppercase
RECURSIVE to_uppercase(_)
to_uppercase(s) ==
    IF s = "" THEN ""
    ELSE UpperChar(Char(s, 1)) \o to_uppercase(SubSeq(s, 2, Len(s)))

\* str::len: the length in bytes
RECURSIVE ByteLen(_)
ByteLen(s) ==
    IF s = "" THEN 0
    ELSE Width(Char(s, 1)) + ByteLen(SubSeq(s, 2, Len(s)))

\* The byte offset at which character k of s starts (k = Len(s) + 1: the end).
ByteOffsetOfChar(s, k) == ByteLen(SubSeq(s, 1, k - 1))

\* The index of the character of s that starts at byte offset off (Len(s) + 1
\* for the end of s), 0 when off is inside a character or beyond the end;
\* k is the character reached and bytes the offset at which it starts.
RECURSIVE CharIndexAt(_, _, _, _)
CharIndexAt(s, k, bytes, off) ==
    IF bytes = off THEN k
    ELSE IF bytes > off \/ k > Len(s) THEN 0
    ELSE CharIndexAt(s, k + 1, bytes + Width(Char(s, k)), off)

\* str::is_char_boundary
IsCharBoundary(s, off) == CharIndexAt(s, 1, 0, off) # 0

\* char::is_whitespace, on the characters of the model
IsWhitespace(c) == c \in {" ", "\n", "\t", "\r"}

\* str::trim_end
RECURSIVE trim_end(_)
trim_end(s) ==
    IF s # "" /\ IsWhitespace(Char(s, Len(s)))
    THEN trim_end(SubSeq(s, 1, Len(s) - 1))
    ELSE s

\* str::trim_start and str::trim
RECURSIVE trim_start(_)
trim_start(s) ==
    IF s # "" /\ IsWhitespace(Char(s, 1))
    THEN trim_start(SubSeq(s, 2, Len(s)))
    ELSE s

trim(s) == trim_start(trim_end(s))

\* str::ends_with and str::starts_with
ends_with(s, t) == Len(t) <= Len(s) /\ SubSeq(s, Len(s) - Len(t) + 1, Len(s)) = t
starts_with(s, t) == Len(t) <= Len(s) /\ SubSeq(s, 1, Len(t)) = t

\* str::contains
contains(s, t) == \E i \in 1..(Len(s) - Len(t) + 1) : SubSeq(s, i, i + Len(t) - 1) = t

-----------------------------------------------------------------------------
(* The keyword set of the corrector and the linter                         *)

KEYWORDS ==
    {"SELECT", "FROM", "WHERE", "AND", "OR", "NOT", "IN", "IS", "NULL", "LIKE",
     "BETWEEN", "JOIN", "LEFT", "RIGHT", "INNER", "OUTER", "FULL", "CROSS", "ON",
     "AS", "ORDER", "BY", "ASC", "DESC", "GROUP", "HAVING", "LIMIT", "OFFSET",
     "UNION", "ALL", "DISTINCT", "INSERT", "INTO", "VALUES", "UPDATE", "SET",
     "DELETE", "CREATE", "TABLE", "INDEX", "VIEW", "DROP", "ALTER", "ADD",
     "COLUMN", "PRIMARY", "KEY", "FOREIGN", "REFERENCES", "CONSTRAINT",
     "DEFAULT", "UNIQUE", "CHECK", "CASCADE", "RESTRICT", "IF", "EXISTS", "CASE",
     "WHEN", "THEN", "ELSE", "END", "CAST", "COALESCE", "NULLIF", "TRUE",
     "FALSE", "WITH", "RECURSIVE", "WINDOW", "OVER", "PARTITION", "ROWS",
     "RANGE", "UNBOUNDED", "PRECEDING", "FOLLOWING", "CURRENT", "ROW", "EXCEPT",
     "INTERSECT", "FETCH", "FIRST", "NEXT", "ONLY", "PERCENT", "TIES", "FOR",
     "SHARE", "NOWAIT", "SKIP", "LOCKED"}

is_sql_keyword(word) == to_uppercase(word) \in KEYWORDS

-----------------------------------------------------------------------------
(* The tokenizer of the SQL front-end (sqlparser, generic dialect), on the *)
(* characters of the model: letters and the two-byte letters form words    *)
(* (digits, "_", "#", "@" and "$" may follow), digits form numbers (with a *)
(* fraction, an exponent and the suffix L), a double quote delimits an     *)
(* identifier, a single quote a string literal (a doubled quote inside     *)
(* either is an escaped quote), space and newline are whitespace tokens,   *)
(* "<=", ">=", "<>" and "!=" are one token each and every other character  *)
(* is a token of its own.                                                  *)
(* A token's location is that of its first character: the line is 1 plus   *)
(* the newlines before it, the column is 1 plus the CHARACTERS (not bytes) *)
(* since the last newline.                                                 *)

DigitSet == {"0", "1", "2", "3", "4", "5", "6", "7", "8", "9"}

\* GenericDialect::is_identifier_start: alphabetic, "_", "#" or "@"
IdentStartSet ==
    LowerSet \cup UpperSet \cup {E_ACUTE, E_ACUTE_UPPER, LONG_S, "_", "#", "@"}

IsIdentStart(c) == c \in IdentStartSet

\* GenericDialect::is_identifier_part: those, a digit or "$"
IsIdentPart(c) == IsIdentStart(c) \/ c \in DigitSet \/ c = "$"

\* Location.line and Location.column of character i of s: the line is one more
\* than the number of newlines before i, the column the distance from the last
\* of them (from the start of s when there is none).
NewlinesBefore(s, i) == {k \in 1..(i - 1) : Char(s, k) = "\n"}

LineOf(s, i) == 1 + Cardinality(NewlinesBefore(s, i))

ColumnOf(s, i) ==
    LET before == NewlinesBefore(s, i) IN
    IF before = {} THEN (IF i <= 1 THEN 1 ELSE i)
    ELSE i - (CHOOSE k \in before : \A j \in before : j <= k)

\* The index of the last character of the word that starts at i.
RECURSIVE WordEnd(_, _)
WordEnd(s, i) ==
    IF i + 1 <= Len(s) /\ IsIdentPart(Char(s, i + 1)) THEN WordEnd(s, i + 1) ELSE i

\* The index of the quote that closes a quoted token whose text starts at j,
\* or 0 when the text ends first (the tokenizer's error).
RECURSIVE QuoteEnd(_, _, _)
QuoteEnd(s, j, q) ==
    IF j > Len(s) THEN 0
    ELSE IF Char(s, j) = q
         THEN IF j + 1 <= Len(s) /\ Char(s, j + 1) = q
              THEN QuoteEnd(s, j + 2, q)
              ELSE j
         ELSE QuoteEnd(s, j + 1, q)

\* The value of a quoted token: its text with each doubled quote read as one.
RECURSIVE Unescape(_, _)
Unescape(t, q) ==
    IF t = "" THEN ""
    ELSE IF Char(t, 1) = q
         THEN q \o Unescape(SubSeq(t, 3, Len(t)), q)
         ELSE Char(t, 1) \o Unescape(SubSeq(t, 2, Len(t)), q)

\* The index of the first character at or after i that is not a digit.
RECURSIVE DigitsEnd(_, _)
DigitsEnd(s, i) ==
    IF i <= Len(s) /\ Char(s, i) \in DigitSet THEN DigitsEnd(s, i + 1) ELSE i

\* The index after the number that starts at i with a digit or a period:
\* digits, a period and digits, then an exponent (e or E, a sign, digits) when
\* its digits are there, then the suffix L. A period alone is no number: the
\* result is then i + 1 and the token a period.
NumberEnd(s, i) ==
    LET a == DigitsEnd(s, i)
        b == IF a <= Len(s) /\ Char(s, a) = "." THEN DigitsEnd(s, a + 1) ELSE a
        k == IF b + 1 <= Len(s) /\ Char(s, b + 1) \in {"+", "-"} THEN b + 2 ELSE b + 1
        c == IF b <= Len(s) /\ Char(s, b) \in {"e", "E"}
                /\ k <= Len(s) /\ Char(s, k) \in DigitSet
             THEN DigitsEnd(s, k)
             ELSE b
    IN  IF SubSeq(s, i, b - 1) = "." THEN i + 1
        ELSE IF c <= Len(s) /\ Char(s, c) = "L" THEN c + 1
        ELSE c

Token(kind, value, quote, s, i) ==
    [kind |-> kind, value |-> value, quote |-> quote,
     line |-> LineOf(s, i), column |-> ColumnOf(s, i)]

RECURSIVE TokenizeFrom(_, _, _)
TokenizeFrom(s, i, acc) ==
    IF i > Len(s) THEN [ok |-> TRUE, tokens |-> acc]
    ELSE LET c == Char(s, i) IN
         IF IsWhitespace(c)
         THEN TokenizeFrom(s, i + 1, Append(acc, Token("whitespace", c, "", s, i)))
         ELSE IF c \in {"'", "\""}
         THEN LET e == QuoteEnd(s, i + 1, c) IN
              IF e = 0 THEN [ok |-> FALSE, tokens |-> <<>>]
              ELSE TokenizeFrom(s, e + 1,
                       Append(acc, Token(IF c = "'" THEN "string" ELSE "word",
                                         Unescape(SubSeq(s, i + 1, e - 1), c), c, s, i)))
         ELSE IF IsIdentStart(c)
         THEN LET e == WordEnd(s, i) IN
              TokenizeFrom(s, e + 1, Append(acc, Token("word", SubSeq(s, i, e), "", s, i)))
         ELSE IF c \in DigitSet \/ c = "."
         THEN LET e == NumberEnd(s, i)
                  text == SubSeq(s, i, e - 1)
              IN  TokenizeFrom(s, e,
                      Append(acc, Token(IF text = "." THEN "punct" ELSE "number",
                                        text, "", s, i)))
         ELSE IF i + 1 <= Len(s) /\ SubSeq(s, i, i + 1) \in {"<=", ">=", "<>", "!="}
         THEN TokenizeFrom(s, i + 2, Append(acc, Token("punct", SubSeq(s, i, i + 1), "", s, i)))
         ELSE TokenizeFrom(s, i + 1, Append(acc, Token("punct", c, "", s, i)))

\* Tokenizer::tokenize_with_location
tokenize_with_location(s) == TokenizeFrom(s, 1, <<>>)

-----------------------------------------------------------------------------
(* Position mapper                                                         *)

\* A table that records the offset of each newline byte itself.
RECURSIVE LineStartsFrom_AtNewline(_, _, _)
LineStartsFrom_AtNewline(s, k, offset) ==
    IF k > Len(s) THEN <<>>
    ELSE (IF Char(s, k) = "\n" THEN <<offset>> ELSE <<>>)
         \o LineStartsFrom_AtNewline(s, k + 1, offset + Width(Char(s, k)))

\* src.bytes().enumerate(): the byte offset just after each newline byte
RECURSIVE LineStartsFrom(_, _, _)
LineStartsFrom(s, k, offset) ==
    IF k > Len(s) THEN <<>>
    ELSE LET after == offset + Width(Char(s, k)) IN
         (IF Char(s, k) = "\n" THEN <<after>> ELSE <<>>)
         \o LineStartsFrom(s, k + 1, after)

build_line_offsets(src) == <<0>> \o LineStartsFrom(src, 1, 0)

\* usize::saturating_sub(1)
SaturatingPred(n) == IF n >= 1 THEN n - 1 ELSE 0

\* A mapper that adds the 1-based column as it is.
location_to_byte_offset_ColumnAsOffset(line_offsets, line, column) ==
    LET line_idx == SaturatingPred(line)
    IN  IF line_idx < Len(line_offsets)
        THEN line_offsets[line_idx + 1] + column
        ELSE line_offsets[Len(line_offsets)]

\* A mapper whose fallback is the start of the text.
location_to_byte_offset_FallbackZero(line_offsets, line, column) ==
    LET line_idx == SaturatingPred(line)
        col_offset == SaturatingPred(column)
    IN  IF line_idx < Len(line_offsets)
        THEN line_offsets[line_idx + 1] + col_offset
        ELSE 0

\* checker.rs:231-240
location_to_byte_offset(line_offsets, line, column) ==
    LET line_idx == SaturatingPred(line)
        col_offset == SaturatingPred(column)
    IN  IF line_idx < Len(line_offsets)
        THEN line_offsets[line_idx + 1] + col_offset
        ELSE line_offsets[Len(line_offsets)]

-----------------------------------------------------------------------------
(* Token-case corrector                                                    *)

\* String::replace_range(from..to, with): panics unless both ends are on
\* character boundaries of s.
replace_range(s, from, to, with) ==
    IF IsCharBoundary(s, from) /\ IsCharBoundary(s, to)
    THEN LET a == CharIndexAt(s, 1, 0, from)
             b == CharIndexAt(s, 1, 0, to)
         IN  [panic |-> FALSE, text |-> SubSeq(s, 1, a - 1) \o with \o SubSeq(s, b, Len(s))]
    ELSE [panic |-> TRUE, text |-> s]

\* checker.rs:256-270: one (offset, original length, replacement) per word
\* token that is not quote-delimited, is a keyword and is not upper-case.
RECURSIVE CollectReplacements(_, _, _)
CollectReplacements(tokens, i, line_offsets) ==
    IF i > Len(tokens) THEN <<>>
    ELSE LET t == tokens[i]
             upper == to_uppercase(t.value)
         IN  (IF t.kind = "word" /\ t.quote = "" /\ is_sql_keyword(t.value)
                 /\ t.value # upper
              THEN <<[offset |-> location_to_byte_offset(line_offsets, t.line, t.column),
                      len |-> ByteLen(t.value),
                      replacement |-> upper]>>
              ELSE <<>>)
             \o CollectReplacements(tokens, i + 1, line_offsets)

\* A loop that applies the replacements from the first one to the last, each at
\* the offset recorded for it; n of them are still to be applied.
RECURSIVE ApplyReplacements_FirstToLast(_, _, _)
ApplyReplacements_FirstToLast(result, replacements, n) ==
    IF n = 0 THEN [panic |-> FALSE, text |-> result]
    ELSE LET r == replacements[Len(replacements) - n + 1] IN
         IF r.offset + r.len <= ByteLen(result)
         THEN LET step == replace_range(result, r.offset, r.offset + r.len, r.replacement)
              IN  IF step.panic THEN step
                  ELSE ApplyReplacements_FirstToLast(step.text, replacements, n - 1)
         ELSE ApplyReplacements_FirstToLast(result, replacements, n - 1)

\* checker.rs:273-277: the replacements applied from the last one to the first
RECURSIVE ApplyReplacements(_, _, _)
ApplyReplacements(result, replacements, n) ==
    IF n = 0 THEN [panic |-> FALSE, text |-> result]
    ELSE LET r == replacements[n] IN
         IF r.offset + r.len <= ByteLen(result)
         THEN LET step == replace_range(result, r.offset, r.offset + r.len, r.replacement)
              IN  IF step.panic THEN step
                  ELSE ApplyReplacements(step.text, replacements, n - 1)
         ELSE ApplyReplacements(result, replacements, n - 1)

\* checker.rs:250-278: the Ok(tokens) arm of the keyword pass
KeywordPass(text, tokens) ==
    LET line_offsets == build_line_offsets(text)
        replacements == CollectReplacements(tokens, 1, line_offsets)
    IN  ApplyReplacements(text, replacements, Len(replacements))

\* A keyword pass that gives up when the tokenizer returns an error.
FixKeywordCase_FailOnError(text) ==
    LET tokenized == tokenize_with_location(text) IN
    IF tokenized.ok
    THEN KeywordPass(text, tokenized.tokens)
    ELSE [panic |-> TRUE, text |-> text]

\* checker.rs:245-282: the keyword pass
FixKeywordCase(text) ==
    LET tokenized == tokenize_with_location(text) IN
    IF tokenized.ok
    THEN KeywordPass(text, tokenized.tokens)
    ELSE [panic |-> FALSE, text |-> text]

\* A terminator step that appends to every non-empty text, terminated or not.
FixTrailingSemicolon_Always(result) ==
    LET trimmed == trim_end(result) IN
    IF trimmed # ""
    THEN trimmed \o ";\n"
    ELSE result

\* A terminator step that appends without trimming.
FixTrailingSemicolon_NoTrim(result) ==
    LET trimmed == trim_end(result) IN
    IF trimmed # "" /\ ~ends_with(trimmed, ";")
    THEN result \o ";\n"
    ELSE result

\* checker.rs:284-288: the trailing semicolon
FixTrailingSemicolon(result) ==
    LET trimmed == trim_end(result) IN
    IF trimmed # "" /\ ~ends_with(trimmed, ";")
    THEN trimmed \o ";\n"
    ELSE result

fix_content(text) ==
    LET kw == FixKeywordCase(text) IN
    IF kw.panic THEN [panic |-> TRUE, staged |-> text, text |-> text]
    ELSE [panic |-> FALSE, staged |-> kw.text, text |-> FixTrailingSemicolon(kw.text)]

-----------------------------------------------------------------------------
(* The parser of the SQL front-end (sqlparser's Parser::parse_sql, generic *)
(* dialect), on the statements the tokens of the model can form:           *)
(*     statements separated by one or more ";" (empty ones allowed);       *)
(*     a statement is SELECT item {, item} [FROM name [alias]]             *)
(*     [WHERE expression];                                                 *)
(*     an item is "*", name ".*", or an expression with an optional alias; *)
(*     an expression is operands joined by binary operators (comparison,   *)
(*     arithmetic, AND, OR); an operand is a number, a string literal or a *)
(*     name: words joined by periods (a word quoted or not; the parser     *)
(*     reads a word it gives no other meaning as an identifier, except an  *)
(*     unquoted FROM); an alias is AS followed by any word or string, or a *)
(*     word that is quoted or not reserved for aliases.                    *)
(* ParseSql returns TRUE when the text parses.                             *)

RESERVED_FOR_COLUMN_ALIAS ==
    {"ANALYZE", "EXPLAIN", "WITH", "SELECT", "WHERE", "GROUP", "SORT", "HAVING",
     "ORDER", "TOP", "LATERAL", "VIEW", "LIMIT", "OFFSET", "FETCH", "UNION",
     "EXCEPT", "INTERSECT", "CLUSTER", "DISTRIBUTE", "RETURNING", "FROM", "INTO",
     "END", "AS"}

RECURSIVE Significant(_, _)
Significant(tokens, i) ==
    IF i > Len(tokens) THEN <<>>
    ELSE (IF tokens[i].kind = "whitespace" THEN <<>> ELSE <<tokens[i]>>)
         \o Significant(tokens, i + 1)

IsKeywordToken(T, i, kw) ==
    /\ i <= Len(T)
    /\ T[i].kind = "word" /\ T[i].quote = "" /\ to_uppercase(T[i].value) = kw

IsPunct(T, i, c) == i <= Len(T) /\ T[i].kind = "punct" /\ T[i].value = c

\* parse_optional_alias: the index after the alias that starts at i, i itself
\* when there is none, 0 when AS is followed by no identifier.
AfterAlias(T, i) ==
    IF IsKeywordToken(T, i, "AS")
    THEN IF i + 1 <= Len(T) /\ T[i + 1].kind \in {"word", "string"} THEN i + 2 ELSE 0
    ELSE IF i <= Len(T) /\ T[i].kind = "word"
              /\ (T[i].quote # "" \/ to_uppercase(T[i].value) \notin RESERVED_FOR_COLUMN_ALIAS)
         THEN i + 1
         ELSE IF i <= Len(T) /\ T[i].kind = "string" THEN i + 1
         ELSE i

\* parse_prefix: the index after the operand that starts at i, 0 on an error.
RECURSIVE AfterOperand(_, _)
AfterOperand(T, i) ==
    IF i > Len(T) THEN 0
    ELSE IF T[i].kind \in {"string", "number"} THEN i + 1
    ELSE IF T[i].kind = "word" /\ ~IsKeywordToken(T, i, "FROM")
         THEN IF IsPunct(T, i + 1, ".")
              THEN IF i + 2 <= Len(T) /\ T[i + 2].kind = "word"
                   THEN AfterOperand(T, i + 2)
                   ELSE 0
              ELSE i + 1
    ELSE 0

\* parse_infix: a comparison, an arithmetic operator, AND or OR
IsBinaryOperator(T, i) ==
    \/ /\ i <= Len(T) /\ T[i].kind = "punct"
       /\ T[i].value \in {"=", "<", ">", "<=", ">=", "<>", "!=", "+", "-", "*", "/", "%"}
    \/ IsKeywordToken(T, i, "AND")
    \/ IsKeywordToken(T, i, "OR")

\* parse_expr: the index after the expression that starts at i, 0 on an error.
RECURSIVE AfterExpr(_, _)
AfterExpr(T, i) ==
    LET j == AfterOperand(T, i) IN
    IF j = 0 THEN 0
    ELSE IF IsBinaryOperator(T, j) THEN AfterExpr(T, j + 1)
    ELSE j

\* parse_select_item: the index after the item that starts at i, 0 on an error.
AfterSelectItem(T, i) ==
    IF i > Len(T) THEN 0
    ELSE IF IsPunct(T, i, "*") THEN i + 1
    ELSE IF T[i].kind = "word" /\ IsPunct(T, i + 1, ".") /\ IsPunct(T, i + 2, "*")
         THEN i + 3
    ELSE LET j == AfterExpr(T, i) IN
         IF j = 0 THEN 0 ELSE AfterAlias(T, j)

\* parse_projection: items separated by commas
RECURSIVE AfterProjection(_, _)
AfterProjection(T, i) ==
    LET j == AfterSelectItem(T, i) IN
    IF j = 0 THEN 0
    ELSE IF IsPunct(T, j, ",") THEN AfterProjection(T, j + 1)
    ELSE j

\* the FROM clause: one table name with an optional alias
AfterFrom(T, i) ==
    IF IsKeywordToken(T, i, "FROM")
    THEN IF i + 1 <= Len(T) /\ T[i + 1].kind = "word" THEN AfterAlias(T, i + 2) ELSE 0
    ELSE i

\* the WHERE clause: one expression
AfterWhere(T, i) ==
    IF IsKeywordToken(T, i, "WHERE") THEN AfterExpr(T, i + 1) ELSE i

\* parse_statement: the index after the statement that starts at i, 0 on an error.
AfterStatement(T, i) ==
    IF IsKeywordToken(T, i, "SELECT")
    THEN LET j == AfterProjection(T, i + 1)
             k == IF j = 0 THEN 0 ELSE AfterFrom(T, j)
         IN  IF k = 0 THEN 0 ELSE AfterWhere(T, k)
    ELSE 0

\* Parser::parse_statements
RECURSIVE ParseStatements(_, _, _)
ParseStatements(T, i, expecting_statement_delimiter) ==
    IF IsPunct(T, i, ";") THEN ParseStatements(T, i + 1, FALSE)
    ELSE IF i > Len(T) THEN TRUE
    ELSE IF expecting_statement_delimiter THEN FALSE
    ELSE LET j == AfterStatement(T, i) IN
         IF j = 0 THEN FALSE ELSE ParseStatements(T, j, TRUE)

\* Parser::parse_sql(dialect, sql).is_ok()
ParseSql(sql) ==
    LET tokenized == tokenize_with_location(sql) IN
    /\ tokenized.ok
    /\ ParseStatements(Significant(tokenized.tokens, 1), 1, FALSE)


-----------------------------------------------------------------------------
(* Diagnostic hint engine                                                  *)

CLAUSE_KEYWORDS ==
    {"SELECT", "FROM", "WHERE", "JOIN", "LEFT", "RIGHT", "INNER", "OUTER", "FULL",
     "CROSS", "ON", "AND", "OR", "ORDER", "GROUP", "HAVING", "LIMIT", "OFFSET",
     "UNION", "INSERT", "UPDATE", "DELETE", "SET", "VALUES", "INTO"}

\* The index of the first "\n" of s at or after i, 0 when there is none.
RECURSIVE NewlineAt(_, _)
NewlineAt(s, i) ==
    IF i > Len(s) THEN 0
    ELSE IF Char(s, i) = "\n" THEN i
    ELSE NewlineAt(s, i + 1)

\* str::lines: the lines of s without their terminators ("\n" or "\r\n"); a
\* final line terminator starts no further line.
RECURSIVE Lines(_)
Lines(s) ==
    IF s = "" THEN <<>>
    ELSE LET n == NewlineAt(s, 1) IN
         IF n = 0 THEN <<s>>
         ELSE LET l == SubSeq(s, 1, n - 1) IN
              <<IF ends_with(l, "\r") THEN SubSeq(l, 1, Len(l) - 1) ELSE l>>
              \o Lines(SubSeq(s, n + 1, Len(s)))

\* source.chars().filter(|&c| c == ch).count()
RECURSIVE CountChar(_, _)
CountChar(s, ch) ==
    IF s = "" THEN 0
    ELSE (IF Char(s, 1) = ch THEN 1 ELSE 0) + CountChar(SubSeq(s, 2, Len(s)), ch)

\* hints.rs:37-38: the line, trimmed and upper-cased, starts with a clause keyword
IsClauseKeywordLine(line) ==
    LET line_content == to_uppercase(trim(line)) IN
    \E kw \in CLAUSE_KEYWORDS : starts_with(line_content, kw)

\* hints.rs:34-42: the 1-based number of the nearest clause-keyword line among
\* lines 1..n scanning backward from line n, 0 for None.
RECURSIVE ScanKeywordLine(_, _)
ScanKeywordLine(ls, n) ==
    IF n = 0 THEN 0
    ELSE IF IsClauseKeywordLine(ls[n]) THEN n
    ELSE ScanKeywordLine(ls, n - 1)

\* Option<ErrorHint>: kind "none" is None; suspect_line 0 and suspect_pattern ""
\* are None; count is the number the unclosed-parentheses message states.
NoHint == [kind |-> "none", suspect_line |-> 0, suspect_pattern |-> "", count |-> 0]

TrailingCommaHint(line) ==
    [kind |-> "trailing_comma", suspect_line |-> line, suspect_pattern |-> ",", count |-> 0]

\* A trailing-comma rule that names the keyword line, not the line before it.
TrailingCommaRule_KeywordLine(msg, ls, line) ==
    IF contains(msg, "Expected:") /\ contains(msg, "found:")
       /\ line > 1 /\ line <= Len(ls)
    THEN LET kw_line == ScanKeywordLine(ls, line) IN
         IF kw_line > 1 /\ ends_with(trim(ls[kw_line - 1]), ",")
         THEN TrailingCommaHint(kw_line)
         ELSE IF ends_with(trim(ls[line - 1]), ",")
              THEN TrailingCommaHint(line - 1)
              ELSE NoHint
    ELSE NoHint

\* A trailing-comma rule that names the error line itself.
TrailingCommaRule_ErrorLine(msg, ls, line) ==
    IF contains(msg, "Expected:") /\ contains(msg, "found:")
       /\ line > 1 /\ line <= Len(ls)
    THEN LET kw_line == ScanKeywordLine(ls, line) IN
         IF kw_line > 1 /\ ends_with(trim(ls[kw_line - 1]), ",")
         THEN TrailingCommaHint(kw_line - 1)
         ELSE IF ends_with(trim(ls[line - 1]), ",")
              THEN TrailingCommaHint(line)
              ELSE NoHint
    ELSE NoHint

\* hints.rs:28-73: pattern 1
TrailingCommaRule(msg, ls, line) ==
    IF contains(msg, "Expected:") /\ contains(msg, "found:")
       /\ line > 1 /\ line <= Len(ls)
    THEN LET kw_line == ScanKeywordLine(ls, line) IN
         IF kw_line > 1 /\ ends_with(trim(ls[kw_line - 1]), ",")
         THEN TrailingCommaHint(kw_line - 1)
         ELSE IF ends_with(trim(ls[line - 1]), ",")
              THEN TrailingCommaHint(line - 1)
              ELSE NoHint
    ELSE NoHint

\* An end-of-input rule that states the number of "(" instead of the deficit.
EndOfInputRule_OpenCount(msg, src) ==
    IF contains(msg, "EOF") \/ contains(msg, "end of")
    THEN LET open_parens == CountChar(src, "(")
             close_parens == CountChar(src, ")")
         IN  IF open_parens > close_parens
             THEN [kind |-> "unclosed_parentheses", suspect_line |-> 0,
                   suspect_pattern |-> "(", count |-> open_parens]
             ELSE IF CountChar(src, "'") % 2 # 0
                  THEN [kind |-> "unclosed_quote", suspect_line |-> 0,
                        suspect_pattern |-> "'", count |-> 0]
                  ELSE NoHint
    ELSE NoHint

\* hints.rs:96-118: pattern 4
EndOfInputRule(msg, src) ==
    IF contains(msg, "EOF") \/ contains(msg, "end of")
    THEN LET open_parens == CountChar(src, "(")
             close_parens == CountChar(src, ")")
         IN  IF open_parens > close_parens
             THEN [kind |-> "unclosed_parentheses", suspect_line |-> 0,
                   suspect_pattern |-> "(", count |-> open_parens - close_parens]
             ELSE IF CountChar(src, "'") % 2 # 0
                  THEN [kind |-> "unclosed_quote", suspect_line |-> 0,
                        suspect_pattern |-> "'", count |-> 0]
                  ELSE NoHint
    ELSE NoHint

\* A decision list that consults the end-of-input rule before the
\* opening-parenthesis rule.
analyze_error_EndOfInputFirst(msg, src, line) ==
    LET ls == Lines(src)
        first == TrailingCommaRule(msg, ls, line)
    IN  IF first # NoHint THEN first
        ELSE IF contains(msg, "Expected: )")
        THEN [kind |-> "check_parentheses", suspect_line |-> 0,
              suspect_pattern |-> "", count |-> 0]
        ELSE IF EndOfInputRule(msg, src) # NoHint
        THEN EndOfInputRule(msg, src)
        ELSE IF contains(msg, "Expected: (")
        THEN [kind |-> "missing_parentheses", suspect_line |-> 0,
              suspect_pattern |-> "", count |-> 0]
        ELSE NoHint

\* A decision list that consults the closing-parenthesis rule before the
\* trailing-comma rule.
analyze_error_ParenthesesFirst(msg, src, line) ==
    LET ls == Lines(src)
        first == TrailingCommaRule(msg, ls, line)
    IN  IF contains(msg, "Expected: )")
        THEN [kind |-> "check_parentheses", suspect_line |-> 0,
              suspect_pattern |-> "", count |-> 0]
        ELSE IF first # NoHint THEN first
        ELSE IF contains(msg, "Expected: (")
        THEN [kind |-> "missing_parentheses", suspect_line |-> 0,
              suspect_pattern |-> "", count |-> 0]
        ELSE EndOfInputRule(msg, src)

\* hints.rs:18-121
analyze_error(msg, src, line) ==
    LET ls == Lines(src)
        first == TrailingCommaRule(msg, ls, line)
    IN  IF first # NoHint THEN first
        ELSE IF contains(msg, "Expected: )")
        THEN [kind |-> "check_parentheses", suspect_line |-> 0,
              suspect_pattern |-> "", count |-> 0]
        ELSE IF contains(msg, "Expected: (")
        THEN [kind |-> "missing_parentheses", suspect_line |-> 0,
              suspect_pattern |-> "", count |-> 0]
        ELSE EndOfInputRule(msg, src)

-----------------------------------------------------------------------------
(* Lint rule evaluator (linter.rs)                                         *)

\* The syntax tree the rules look at: per statement the kinds of the items of
\* its projection ("wildcard", "qualified_wildcard" or "expr") and the tables of
\* its FROM clause with whether each has an alias.
SelectItemKind(T, i) ==
    IF IsPunct(T, i, "*") THEN "wildcard"
    ELSE IF IsPunct(T, i + 1, ".") /\ IsPunct(T, i + 2, "*") THEN "qualified_wildcard"
    ELSE "expr"

RECURSIVE ProjectionItems(_, _)
ProjectionItems(T, i) ==
    LET j == AfterSelectItem(T, i) IN
    <<SelectItemKind(T, i)>>
    \o (IF j # 0 /\ IsPunct(T, j, ",") THEN ProjectionItems(T, j + 1) ELSE <<>>)

FromTables(T, i) ==
    IF IsKeywordToken(T, i, "FROM")
    THEN <<[name |-> T[i + 1].value, alias |-> AfterAlias(T, i + 2) # i + 2]>>
    ELSE <<>>

\* Parser::parse_sql(dialect, sql) when it is Ok: the statements from token i on.
RECURSIVE StatementsFrom(_, _)
StatementsFrom(T, i) ==
    IF IsPunct(T, i, ";") THEN StatementsFrom(T, i + 1)
    ELSE IF i > Len(T) THEN <<>>
    ELSE <<[projection |-> ProjectionItems(T, i + 1),
            from |-> FromTables(T, AfterProjection(T, i + 1))]>>
         \o StatementsFrom(T, AfterStatement(T, i))

ParseTree(s) ==
    LET tokenized == tokenize_with_location(s)
        T == Significant(tokenized.tokens, 1)
    IN  IF tokenized.ok /\ ParseStatements(T, 1, FALSE)
        THEN [ok |-> TRUE, statements |-> StatementsFrom(T, 1)]
        ELSE [ok |-> FALSE, statements |-> <<>>]

\* char::is_uppercase, char::is_lowercase and str::to_lowercase
UppercaseSet == UpperSet \cup {E_ACUTE_UPPER}
LowercaseSet == LowerSet \cup {E_ACUTE, LONG_S}

is_uppercase(c) == c \in UppercaseSet
is_lowercase(c) == c \in LowercaseSet

LowerMap ==
    [c \in UpperSet |->
        Char(LowerLetters, CHOOSE i \in 1..Len(UpperLetters) : Char(UpperLetters, i) = c)]
    @@ (E_ACUTE_UPPER :> E_ACUTE)

LowerChar(c) == IF c \in DOMAIN LowerMap THEN LowerMap[c] ELSE c

RECURSIVE to_lowercase(_)
to_lowercase(s) ==
    IF s = "" THEN ""
    ELSE LowerChar(Char(s, 1)) \o to_lowercase(SubSeq(s, 2, Len(s)))

LintError(rule, line, column, found, expected) ==
    [rule |-> rule, line |-> line, column |-> column,
     found |-> found, expected |-> expected]

\* linter.rs:240-255: the loop runs over the characters whose index is below pos
pos_to_line_col(s, p) ==
    LET n == IF p < Len(s) THEN p ELSE Len(s) IN
    <<LineOf(s, n + 1), ColumnOf(s, n + 1)>>

\* Token::to_string
token_to_string(t) == t.quote \o t.value \o t.quote

\* str::find from character k on: the index of the first character of the
\* first occurrence of t, 0 for None.
RECURSIVE FindFrom(_, _, _)
FindFrom(s, k, t) ==
    IF k + Len(t) - 1 > Len(s) THEN 0
    ELSE IF SubSeq(s, k, k + Len(t) - 1) = t THEN k
    ELSE FindFrom(s, k + 1, t)

\* linter.rs:134-137: the cursor (a byte offset) after the token
AdvanceCursor(s, p, token_str) ==
    LET k == FindFrom(s, CharIndexAt(s, 1, 0, p), token_str) IN
    IF k = 0 THEN p ELSE ByteOffsetOfChar(s, k) + ByteLen(token_str)

\* A policy check that holds policy Lower to the upper-case requirement.
Violation_UpperOnly(value, keyword_case) ==
    LET is_upper == \A i \in 1..Len(value) : is_uppercase(Char(value, i))
    IN  CASE keyword_case = "Upper" -> ~is_upper
          [] keyword_case = "Lower" -> ~is_upper
          [] OTHER -> FALSE

\* linter.rs:108-113: the violation of the policy by a keyword
Violation(value, keyword_case) ==
    LET is_upper == \A i \in 1..Len(value) : is_uppercase(Char(value, i))
        is_lower == \A i \in 1..Len(value) : is_lowercase(Char(value, i))
    IN  CASE keyword_case = "Upper" -> ~is_upper
          [] keyword_case = "Lower" -> ~is_lower
          [] OTHER -> FALSE

\* linter.rs:115-119
ExpectedCase(value, keyword_case) ==
    CASE keyword_case = "Upper" -> to_uppercase(value)
      [] keyword_case = "Lower" -> to_lowercase(value)
      [] OTHER -> value

\* linter.rs:100-138: the loop over the tokens
RECURSIVE KeywordCaseLoop(_, _, _, _, _)
KeywordCaseLoop(s, tokens, i, p, keyword_case) ==
    IF i > Len(tokens) THEN <<>>
    ELSE LET t == tokens[i]
             lc == pos_to_line_col(s, p)
         IN  (IF t.kind = "word" /\ is_sql_keyword(t.value)
                 /\ Violation(t.value, keyword_case)
              THEN <<LintError("keyword-case", lc[1], lc[2], t.value,
                               ExpectedCase(t.value, keyword_case))>>
              ELSE <<>>)
             \o KeywordCaseLoop(s, tokens, i + 1,
                                AdvanceCursor(s, p, token_to_string(t)), keyword_case)

\* linter.rs:88-143
check_keyword_case(s, keyword_case) ==
    LET tokenized == tokenize_with_location(s) IN
    IF tokenized.ok
    THEN KeywordCaseLoop(s, tokenized.tokens, 1, 0, keyword_case)
    ELSE <<>>

\* A wildcard rule that overlooks qualified wildcards.
RECURSIVE check_select_star_UnqualifiedOnly(_, _)
check_select_star_UnqualifiedOnly(projection, i) ==
    IF i > Len(projection) THEN <<>>
    ELSE (IF projection[i] = "wildcard"
          THEN <<LintError("no-select-star", 1, 1, "", "")>> ELSE <<>>)
         \o check_select_star_UnqualifiedOnly(projection, i + 1)

\* linter.rs:145-175
RECURSIVE check_select_star(_, _)
check_select_star(projection, i) ==
    IF i > Len(projection) THEN <<>>
    ELSE (IF projection[i] = "wildcard"
          THEN <<LintError("no-select-star", 1, 1, "", "")>> ELSE <<>>)
         \o (IF projection[i] = "qualified_wildcard"
             THEN <<LintError("no-select-star", 1, 1, "", "")>> ELSE <<>>)
         \o check_select_star(projection, i + 1)

\* linter.rs:177-222
RECURSIVE check_table_alias(_, _)
check_table_alias(from, i) ==
    IF i > Len(from) THEN <<>>
    ELSE (IF ~from[i].alias
          THEN <<LintError("require-table-alias", 1, 1, from[i].name, "")>> ELSE <<>>)
         \o check_table_alias(from, i + 1)

\* A terminator rule that looks at the text as it is, untrimmed.
check_trailing_semicolon_NoTrim(s) ==
    IF s # "" /\ ~ends_with(s, ";")
    THEN LET lines == Lines(s) IN
         <<LintError("trailing-semicolon", Len(lines),
                     IF Len(lines) = 0 THEN 1 ELSE ByteLen(lines[Len(lines)]), "", "")>>
    ELSE <<>>

\* linter.rs:224-238
check_trailing_semicolon(s) ==
    LET trimmed == trim(s) IN
    IF trimmed # "" /\ ~ends_with(trimmed, ";")
    THEN LET lines == Lines(s) IN
         <<LintError("trailing-semicolon", Len(lines),
                     IF Len(lines) = 0 THEN 1 ELSE ByteLen(lines[Len(lines)]), "", "")>>
    ELSE <<>>

\* linter.rs:68-77: the rules that look at the tree, statement by statement
RECURSIVE TreeRules(_, _, _)
TreeRules(statements, i, cfg) ==
    IF i > Len(statements) THEN <<>>
    ELSE (IF cfg.no_select_star
          THEN check_select_star(statements[i].projection, 1) ELSE <<>>)
         \o (IF cfg.require_table_alias
             THEN check_table_alias(statements[i].from, 1) ELSE <<>>)
         \o TreeRules(statements, i + 1, cfg)

\* A lint that runs every rule only when the text parses.
lint_AllAfterParse(s, cfg) ==
    LET tree == ParseTree(s) IN
    IF tree.ok
    THEN (IF cfg.keyword_case # "Ignore"
          THEN check_keyword_case(s, cfg.keyword_case) ELSE <<>>)
         \o TreeRules(tree.statements, 1, cfg)
         \o (IF cfg.trailing_semicolon THEN check_trailing_semicolon(s) ELSE <<>>)
    ELSE <<>>

\* linter.rs:60-86
lint(s, cfg) ==
    (IF cfg.keyword_case # "Ignore" THEN check_keyword_case(s, cfg.keyword_case) ELSE <<>>)
    \o (LET tree == ParseTree(s) IN
        IF tree.ok THEN TreeRules(tree.statements, 1, cfg) ELSE <<>>)
    \o (IF cfg.trailing_semicolon THEN check_trailing_semicolon(s) ELSE <<>>)

-----------------------------------------------------------------------------
(* Inputs                                                                  *)

MaxWords == 4
MaxFiles == 2
MaxLines == 3

RECURSIVE Join(_, _)
Join(ws, sep) ==
    IF Len(ws) = 0 THEN ""
    ELSE IF Len(ws) = 1 THEN ws[1]
    ELSE ws[1] \o sep \o Join(Tail(ws), sep)

\* Texts for fix_content: up to MaxWords words, one separator between them, a
\* tail after them; the text of Scenario B; a text with a keyword that is
\* longer in bytes than in characters; and a text with a WHERE clause, a
\* comparison and a number, its keywords in lower case.
Vocabulary == {"select", "as", "id", "^^^", "\"as\"", "\""}

ScenarioB == "select  id  from  users;"

\* A keyword written with two long s, each two bytes, and a keyword after it.
LongSText == "cro~~ as"

Texts ==
    {ScenarioB, LongSText, "select id from users where active = 1;"}
    \cup {Join(ws, sep) \o tail :
            ws \in UNION {[1..n -> Vocabulary] : n \in 0..MaxWords},
            sep \in {" ", "\n"}, tail \in {"", " ", ";\n"}}

\* File contents for the fix command: a statement fix changes, one it leaves
\* alone, two with a syntax error (fix changes the first), one the tokenizer
\* rejects, one on which fix_content panics, an empty file, and a statement
\* with a table that has no alias, a WHERE clause and no semicolon.
FileTexts ==
    {"select id", "SELECT id;\n", "select id as", "SELECT id AS;", "select \"id",
     "select ^^ as id", "", "select id\nFROM t WHERE id = 1"}

\* Sources and messages for analyze_error: up to MaxLines lines, with or
\* without a final newline; and the source of Scenario A.
LineVocabulary == {"SELECT", "  id,", "WHERE (", ")", "  n'"}

ScenarioA == "SELECT\n  id,\n  name,\n  email,\nWHERE\n  active = 1"

Sources ==
    {ScenarioA}
    \cup {Join(ls, "\n") \o tail :
            ls \in UNION {[1..n -> LineVocabulary] : n \in 0..MaxLines},
            tail \in {"", "\n"}}

ErrorMessages ==
    {"Expected: =, found: active",
     "Expected: end of statement, found: =",
     "Expected: ), found: ,",
     "Expected: ), found: EOF",
     "Expected: (, found: id",
     "Expected: (, found: EOF",
     "Expected: an expression, found: EOF",
     "Expected: )",
     "Unexpected EOF",
     "Unterminated string literal"}

\* Texts for lint: a SELECT with up to MaxItems projection items, an optional
\* FROM clause on a second line (the last one lacks its table: a syntax error)
\* and a tail; the texts of Scenarios C and E and of the tests
\* (tests/integration_test.rs:24, 41, 56); and texts with two statements, a
\* quoted identifier, a two-byte character, an unterminated string, nothing
\* but whitespace, and an empty last line.
MaxItems == 2

LintItems == {"*", "id", "t.*"}
LintHeads == {"select", "SELECT", "Select"}
LintFroms == {"", "\nFROM t", "\nfrom t x", "\nFROM"}
LintTails == {"", ";\n", " \n"}

ScenarioC_Star == "SELECT * FROM users;"
ScenarioC_NoStar == "SELECT id, name FROM users;"
ScenarioE == "SELECT id FROM users"

LintTexts ==
    {ScenarioC_Star, ScenarioC_NoStar, ScenarioE, "select * from users;",
     "SELECT *; select t.*, *\nFROM t", "select \"as\" from t",
     "select ^ from t", "select 'x", "", " \n", "SELECT id\n\n",
     "SELECT id, name FROM users WHERE active = 1;", "SELECT 1;",
     "SELECT id FROM users WHERE;"}
    \cup {head \o " " \o Join(items, ", ") \o from \o tail :
            head \in LintHeads,
            items \in UNION {[1..n -> LintItems] : n \in 1..MaxItems},
            from \in LintFroms, tail \in LintTails}

LintConfigs ==
    [keyword_case : {"Upper", "Lower", "Ignore"}, no_select_star : BOOLEAN,
     require_table_alias : BOOLEAN, trailing_semicolon : BOOLEAN]

-----------------------------------------------------------------------------
(* Specification Spec: fix_content applied to a text, then to its result   *)

FixContentIdle ==
    content = "" /\ staged = "" /\ out = "" /\ again = "" /\ pc = "idle"

FixRunIdle ==
    /\ original = <<>> /\ disk = <<>> /\ perm = <<>>
    /\ dry_run = FALSE /\ format = "summary"
    /\ next_file = 1 /\ printed = <<>> /\ run = "idle"
    /\ mode = "none" /\ total = 0

HintsIdle ==
    /\ error_msg = "" /\ source = "" /\ error_line = 0
    /\ hint = NoHint /\ hpc = "idle"

DefaultLintConfig ==
    [keyword_case |-> "Upper", no_select_star |-> TRUE,
     require_table_alias |-> FALSE, trailing_semicolon |-> TRUE]

LintIdle ==
    lsql = "" /\ config = DefaultLintConfig /\ warnings = <<>> /\ lpc = "idle"

PosIdle ==
    /\ ptext = "" /\ pline = 1 /\ pcol = 1
    /\ ptable = <<>> /\ pos = 0 /\ back = <<1, 1>> /\ ppc = "idle"

ReplIdle == rtext = "" /\ rlist = <<>> /\ rout = "" /\ rpc = "idle"

Init ==
    /\ content \in Texts
    /\ staged = "" /\ out = "" /\ again = ""
    /\ pc = "start"
    /\ FixRunIdle
    /\ HintsIdle
    /\ LintIdle
    /\ PosIdle
    /\ ReplIdle

Fix ==
    /\ pc = "start"
    /\ \E r \in {fix_content(content)} :
         /\ pc' = IF r.panic THEN "panicked" ELSE "fixed"
         /\ staged' = r.staged
         /\ out' = r.text
    /\ UNCHANGED <<content, again, fixRunVars, hintVars, lintVars, posVars, replVars>>

FixAgain ==
    /\ pc = "fixed"
    /\ \E r \in {fix_content(out)} :
         /\ pc' = IF r.panic THEN "panicked_again" ELSE "fixed_again"
         /\ again' = r.text
    /\ UNCHANGED <<content, staged, out, fixRunVars, hintVars, lintVars, posVars, replVars>>

Next == Fix \/ FixAgain

Spec == Init /\ [][Next]_vars

\* The text was handed to fix_content and fix_content returned.
Returned == pc \in {"fixed", "fixed_again", "panicked_again"}

\* The bytes of a text (UTF-8): an ASCII character is its own byte.
RECURSIVE Utf8(_)
Utf8(s) ==
    IF s = "" THEN <<>>
    ELSE (IF Char(s, 1) = E_ACUTE THEN <<"C3", "A9">>
          ELSE IF Char(s, 1) = E_ACUTE_UPPER THEN <<"C3", "89">>
          ELSE IF Char(s, 1) = LONG_S THEN <<"C5", "BF">>
          ELSE <<Char(s, 1)>>)
         \o Utf8(SubSeq(s, 2, Len(s)))

\* The 0-based byte offsets of s that lie inside a word token that is not
\* quote-delimited and is a keyword.
KeywordBytes(s) ==
    LET tokens == tokenize_with_location(s).tokens IN
    UNION {LET t == tokens[n]
               i == CHOOSE i \in 1..Len(s) :
                       LineOf(s, i) = t.line /\ ColumnOf(s, i) = t.column
               from == ByteOffsetOfChar(s, i)
           IN  IF t.kind = "word" /\ t.quote = "" /\ is_sql_keyword(t.value)
               THEN from..(from + ByteLen(t.value) - 1)
               ELSE {}
           : n \in 1..Len(tokens)}

\* C1 (as claimed): for a text that parses, fix_content applied to the result
\* of fix_content returns that result unchanged: fix(fix(S)) = fix(S).
C1_FixIdempotent ==
    (pc = "fixed_again" /\ ParseSql(content)) => again = out

\* C2 (as claimed): the keyword pass changes only bytes inside unquoted keyword
\* word tokens: the text after the pass has the length of the text before it and
\* the same byte at every offset outside those tokens.
C2_OnlyKeywordBytesChange ==
    Returned =>
        LET before == Utf8(content)
            after == Utf8(staged)
            inside == KeywordBytes(content)
        IN  /\ Len(after) = Len(before)
            /\ \A k \in 1..Len(before) : (k - 1) \notin inside => after[k] = before[k]

\* C3 (as claimed): fixing Scenario B's text yields it with upper-case keywords,
\* the double spaces kept, and ";" followed by a newline at the end.
C3_ScenarioB_AsClaimed ==
    (content = ScenarioB /\ pc = "fixed") => out = "SELECT  id  FROM  users;\n"

\* C3 (amended): fixing Scenario B's text, which already ends with ";", yields
\* exactly "SELECT  id  FROM  users;": upper-case keywords, the double spaces
\* kept, and nothing appended.
C3_ScenarioB ==
    (content = ScenarioB /\ pc # "start")
        => (pc # "panicked" /\ out = "SELECT  id  FROM  users;")

C3_Witness == content = ScenarioB /\ pc = "fixed" /\ out # content

\* C4: terminator normalization.  When the input trimmed of trailing whitespace
\* is non-empty and does not end with ";", the output is the trimmed
\* (keyword-corrected) content followed by ";" and a newline; an empty or
\* whitespace-only input is returned as it is; and the output trimmed of trailing
\* whitespace is empty or ends with ";".
C4_TerminatorNormalized ==
    Returned =>
        /\ (trim_end(content) # "" /\ ~ends_with(trim_end(content), ";"))
              => (out = trim_end(staged) \o ";\n" /\ trim_end(staged) # "")
        /\ trim_end(content) = "" => out = content
        /\ trim_end(out) = "" \/ ends_with(trim_end(out), ";")

C4_Witness ==
    /\ pc = "fixed"
    /\ content = "select id "
    /\ out = "SELECT id;\n"

\* The texts on which the tokenizer returns an error.
TokenizerFails == {t \in Texts : ~tokenize_with_location(t).ok}

\* C5: when the tokenizer returns an error, fix_content still returns: no
\* keyword is changed (the keyword pass leaves the text as it was) and the
\* result is the original text with the trailing terminator normalized.
C5_TokenizerErrorStillNormalizes ==
    (pc # "start" /\ content \in TokenizerFails) =>
        /\ pc # "panicked"
        /\ staged = content
        /\ out = IF trim_end(content) # "" /\ ~ends_with(trim_end(content), ";")
                 THEN trim_end(content) \o ";\n"
                 ELSE content

C5_Witness ==
    /\ pc = "fixed"
    /\ content = "select \" as "
    /\ ~tokenize_with_location(content).ok
    /\ out = "select \" as;\n"

-----------------------------------------------------------------------------
(* Specification SpecFix: the fix command over the collected files         *)

\* checker.rs:197
\* An equality check that takes every corrected text for a changed one.
Changed_Always(new_content, old_content) == TRUE

\* checker.rs:197: new_content != content
Changed(new_content, old_content) == new_content # old_content

InitFix ==
    /\ \E n \in 0..MaxFiles :
         /\ original \in [1..n -> FileTexts]
         /\ perm \in [1..n -> {"ok", "unreadable", "readonly"}]
    /\ disk = original
    /\ dry_run \in BOOLEAN
    /\ format \in {"summary", "diff"}
    /\ next_file = 1
    /\ printed = <<>>
    /\ run = "running"
    /\ mode = "fix" /\ total = 0
    /\ FixContentIdle
    /\ HintsIdle
    /\ LintIdle
    /\ PosIdle
    /\ ReplIdle

\* checker.rs:186-189: no file was collected
FixNoFiles ==
    /\ mode = "fix"
    /\ run = "running" /\ Len(original) = 0
    /\ run' = "ok"
    /\ printed' = Append(printed, [kind |-> "no_files", file |-> 0])
    /\ UNCHANGED <<original, disk, perm, dry_run, format, next_file, mode, total,
                   fixContentVars, hintVars, lintVars, posVars, replVars>>

\* checker.rs:191-214: one iteration of the loop
FixFile ==
    /\ mode = "fix"
    /\ run = "running" /\ next_file <= Len(original)
    /\ \E file \in {next_file}, r \in {fix_content(disk[next_file])} :
         \/ /\ perm[file] = "unreadable"
            /\ run' = "error"
            /\ UNCHANGED <<disk, printed, next_file>>
         \/ /\ perm[file] # "unreadable" /\ r.panic
            /\ run' = "panic"
            /\ UNCHANGED <<disk, printed, next_file>>
         \/ /\ perm[file] # "unreadable" /\ ~r.panic
            /\ ~Changed(r.text, disk[file])
            /\ next_file' = next_file + 1
            /\ UNCHANGED <<disk, printed, run>>
         \/ /\ perm[file] # "unreadable" /\ ~r.panic
            /\ Changed(r.text, disk[file])
            /\ dry_run
            /\ printed' = Append(printed,
                  [kind |-> IF format = "summary" THEN "would_fix" ELSE "diff",
                   file |-> file])
            /\ next_file' = next_file + 1
            /\ UNCHANGED <<disk, run>>
         \/ /\ perm[file] = "readonly" /\ ~r.panic
            /\ Changed(r.text, disk[file])
            /\ ~dry_run
            /\ run' = "error"
            /\ UNCHANGED <<disk, printed, next_file>>
         \/ /\ perm[file] = "ok" /\ ~r.panic
            /\ Changed(r.text, disk[file])
            /\ ~dry_run
            /\ disk' = [disk EXCEPT ![file] = r.text]
            /\ printed' = Append(printed, [kind |-> "fixed", file |-> file])
            /\ next_file' = next_file + 1
            /\ UNCHANGED run
    /\ UNCHANGED <<original, perm, dry_run, format, mode, total,
                   fixContentVars, hintVars, lintVars, posVars, replVars>>

\* checker.rs:216: the loop is over
FixDone ==
    /\ mode = "fix"
    /\ run = "running" /\ Len(original) > 0 /\ next_file > Len(original)
    /\ run' = "ok"
    /\ UNCHANGED <<original, disk, perm, dry_run, format, next_file, printed,
                   mode, total,
                   fixContentVars, hintVars, lintVars, posVars, replVars>>

NextFix == FixNoFiles \/ FixFile \/ FixDone

SpecFix == InitFix /\ [][NextFix]_vars

\* The events printed for file f.
EventsOf(f) == {k \in 1..Len(printed) : printed[k].file = f}

\* C6 (as claimed): in fix mode a file whose content does not parse is left
\* unmodified on disk: only files that parse are rewritten.
C6_SyntaxErrorFileUntouched ==
    \A f \in 1..Len(original) : ~ParseSql(original[f]) => disk[f] = original[f]

\* The corrected text of each text a file can hold.
CorrectedText == [t \in FileTexts |-> fix_content(t)]

\* C7: a file is written only when the run is not a dry run and the corrected
\* text differs from the text read: with --dry-run no file content ever changes,
\* a file whose content changed holds the corrected text of a run that is not a
\* dry run, and a file whose corrected text equals its content is neither
\* written nor given a diff or summary line.
C7_WriteOnlyWhenChangedAndNotDryRun ==
    /\ dry_run => disk = original
    /\ \A f \in 1..Len(original) :
          \E corrected \in {CorrectedText[original[f]]} :
             /\ disk[f] # original[f] =>
                   /\ ~dry_run
                   /\ f < next_file
                   /\ ~corrected.panic
                   /\ disk[f] = corrected.text
             /\ (~corrected.panic /\ corrected.text = original[f]) =>
                   /\ disk[f] = original[f]
                   /\ EventsOf(f) = {}

C7_Witness ==
    /\ run = "ok" /\ dry_run /\ Len(original) = 2
    /\ original[1] = "select id" /\ EventsOf(1) # {}
    /\ original[2] = "SELECT id;\n" /\ EventsOf(2) = {}
    /\ disk = original

-----------------------------------------------------------------------------
(* Specification SpecHints: analyze_error applied to one error             *)

InitHints ==
    /\ error_msg \in ErrorMessages
    /\ source \in Sources
    /\ error_line \in 0..(Len(Lines(source)) + 1)
    /\ hint = NoHint
    /\ hpc = "start"
    /\ FixContentIdle
    /\ FixRunIdle
    /\ LintIdle
    /\ PosIdle
    /\ ReplIdle

Analyze ==
    /\ hpc = "start"
    /\ hint' = analyze_error(error_msg, source, error_line)
    /\ hpc' = "done"
    /\ UNCHANGED <<error_msg, source, error_line,
                   fixContentVars, fixRunVars, lintVars, posVars, replVars>>

NextHints == Analyze

SpecHints == InitHints /\ [][NextHints]_vars

\* The lines of the source under analysis, and what the rules look at.
LinesOf == [s \in Sources |-> Lines(s)]

ClauseKeywordLinesOf ==
    [s \in Sources |-> {k \in 1..Len(LinesOf[s]) : IsClauseKeywordLine(LinesOf[s][k])}]

SourceLines == LinesOf[source]

BothMarkers == contains(error_msg, "Expected:") /\ contains(error_msg, "found:")

InRange == error_line > 1 /\ error_line <= Len(SourceLines)

EndsWithComma(k) ==
    k \in 1..Len(SourceLines) /\ ends_with(trim(SourceLines[k]), ",")

\* The clause-keyword lines at or before the error line.
KeywordLines == {k \in ClauseKeywordLinesOf[source] : k <= error_line}

\* The nearest of them, 0 when there is none.
NearestKeywordLine ==
    IF KeywordLines = {} THEN 0
    ELSE CHOOSE k \in KeywordLines : \A j \in KeywordLines : j <= k

\* The line the trailing-comma rule suspects, 0 when it produces no hint.
Rule1Suspect ==
    IF ~(BothMarkers /\ InRange) THEN 0
    ELSE IF EndsWithComma(NearestKeywordLine - 1) THEN NearestKeywordLine - 1
    ELSE IF EndsWithComma(error_line - 1) THEN error_line - 1
    ELSE 0

\* The hint rule n produces on its own, NoHint when it produces none.
RuleHint(n) ==
    CASE n = 1 -> IF Rule1Suspect # 0 THEN TrailingCommaHint(Rule1Suspect) ELSE NoHint
      [] n = 2 -> IF contains(error_msg, "Expected: )")
                  THEN [kind |-> "check_parentheses", suspect_line |-> 0,
                        suspect_pattern |-> "", count |-> 0]
                  ELSE NoHint
      [] n = 3 -> IF contains(error_msg, "Expected: (")
                  THEN [kind |-> "missing_parentheses", suspect_line |-> 0,
                        suspect_pattern |-> "", count |-> 0]
                  ELSE NoHint
      [] n = 4 -> EndOfInputRule(error_msg, source)

Producing == {n \in 1..4 : RuleHint(n) # NoHint}

\* C8: analyze_error is an ordered decision list over rules 1 to 4: it returns
\* the hint of the lowest-numbered rule that produces a hint, and no hint when
\* no rule produces one.
C8_OrderedDecisionList ==
    hpc = "done" =>
        \E producing \in {Producing} :
            IF producing = {} THEN hint = NoHint
            ELSE \E n \in producing :
                    /\ \A m \in producing : n <= m
                    /\ hint = RuleHint(n)

C8_Witness ==
    /\ hpc = "done"
    /\ Producing = {3, 4}
    /\ hint.kind = "missing_parentheses"

\* C9 (as claimed): for a message that matches both the expected/found pattern
\* and the expected-closing-parenthesis pattern, the trailing-comma hint is
\* returned whenever the nearest clause-keyword line at or before the error line
\* has a preceding line that ends with a comma, and the parentheses hint is
\* returned only when there is no such line.
C9_HintPriority_AsClaimed ==
    (hpc = "done" /\ BothMarkers /\ contains(error_msg, "Expected: )")) =>
        /\ EndsWithComma(NearestKeywordLine - 1)
              => hint = TrailingCommaHint(NearestKeywordLine - 1)
        /\ hint.kind = "check_parentheses"
              => ~EndsWithComma(NearestKeywordLine - 1)

\* C9 (amended): for such a message and an error line after the first and not
\* after the last line of the source, the trailing-comma hint is returned
\* whenever the nearest clause-keyword line at or before the error line has a
\* preceding line that ends with a comma; the parentheses hint is returned only
\* when there is no such line or the error line is outside that range.
C9_HintPriority ==
    (hpc = "done" /\ BothMarkers /\ contains(error_msg, "Expected: )")) =>
        /\ (InRange /\ EndsWithComma(NearestKeywordLine - 1))
              => hint = TrailingCommaHint(NearestKeywordLine - 1)
        /\ hint.kind = "check_parentheses"
              => ~(InRange /\ EndsWithComma(NearestKeywordLine - 1))

C9_Witness ==
    /\ hpc = "done"
    /\ error_msg = "Expected: ), found: ,"
    /\ InRange /\ NearestKeywordLine = 2 /\ EndsWithComma(1)
    /\ hint.kind = "trailing_comma" /\ hint.suspect_line = 1

\* C10 (as claimed): when the message contains both markers, the hint names the
\* line before the nearest clause-keyword line at or before the error line if
\* that line ends with a comma, otherwise the line before the error line if that
\* one ends with a comma; in Scenario A the suspect line is 4.
C10_TrailingComma_AsClaimed ==
    (hpc = "done" /\ BothMarkers) =>
        /\ IF EndsWithComma(NearestKeywordLine - 1)
           THEN hint = TrailingCommaHint(NearestKeywordLine - 1)
           ELSE EndsWithComma(error_line - 1)
                    => hint = TrailingCommaHint(error_line - 1)
        /\ (source = ScenarioA /\ error_line = 6) => hint.suspect_line = 4

\* C10 (amended): when the message contains both markers and the error line is
\* after the first and not after the last line of the source, the hint names the
\* line before the nearest clause-keyword line at or before the error line if
\* that line ends with a comma, otherwise the line before the error line if that
\* one ends with a comma, and is no trailing-comma hint otherwise; in Scenario A
\* the suspect line is 4.
C10_TrailingComma ==
    (hpc = "done" /\ BothMarkers) =>
        /\ InRange =>
              IF EndsWithComma(NearestKeywordLine - 1)
              THEN hint = TrailingCommaHint(NearestKeywordLine - 1)
              ELSE IF EndsWithComma(error_line - 1)
                   THEN hint = TrailingCommaHint(error_line - 1)
                   ELSE hint.kind # "trailing_comma"
        /\ ~InRange => hint.kind # "trailing_comma"
        /\ (source = ScenarioA /\ error_line = 6) => hint.suspect_line = 4

C10_Witness ==
    /\ hpc = "done"
    /\ source = ScenarioA /\ error_line = 6
    /\ error_msg = "Expected: =, found: active"
    /\ hint = TrailingCommaHint(4)

\* The number of "(" of the source that no ")" matches in number.
ParenDeficit == CountChar(source, "(") - CountChar(source, ")")

EndOfInputMessage == contains(error_msg, "EOF") \/ contains(error_msg, "end of")

UnclosedParenthesesHint(n) ==
    [kind |-> "unclosed_parentheses", suspect_line |-> 0,
     suspect_pattern |-> "(", count |-> n]

\* C11 (as claimed): for every source with n > 0 more "(" than ")" and every
\* end-of-input message, analyze_error returns the unclosed-parentheses hint
\* stating n.
C11_UnclosedParentheses_AsClaimed ==
    (hpc = "done" /\ ParenDeficit > 0 /\ EndOfInputMessage)
        => hint = UnclosedParenthesesHint(ParenDeficit)

\* C11 (amended): for every source with n > 0 more "(" than ")" and every
\* end-of-input message for which none of the rules 1 to 3 produces a hint,
\* analyze_error returns the unclosed-parentheses hint stating n; when one of
\* the rules 1 to 3 produces a hint, that hint is returned instead.
C11_UnclosedParentheses ==
    (hpc = "done" /\ ParenDeficit > 0 /\ EndOfInputMessage) =>
        IF Producing \cap {1, 2, 3} = {}
        THEN hint = UnclosedParenthesesHint(ParenDeficit)
        ELSE hint.kind \in {"trailing_comma", "check_parentheses", "missing_parentheses"}

C11_Witness ==
    /\ hpc = "done"
    /\ error_msg = "Expected: an expression, found: EOF"
    /\ source = "WHERE (\nWHERE (\nWHERE ("
    /\ error_line = 1
    /\ hint = UnclosedParenthesesHint(3)

-----------------------------------------------------------------------------
(* Specification SpecLint: Linter::lint applied to one text                *)

InitLint ==
    /\ lsql \in LintTexts
    /\ config \in LintConfigs
    /\ warnings = <<>>
    /\ lpc = "start"
    /\ FixContentIdle
    /\ FixRunIdle
    /\ HintsIdle
    /\ PosIdle
    /\ ReplIdle

Lint ==
    /\ lpc = "start"
    /\ warnings' = lint(lsql, config)
    /\ lpc' = "done"
    /\ UNCHANGED <<lsql, config, fixContentVars, fixRunVars, hintVars, posVars, replVars>>

NextLint == Lint

SpecLint == InitLint /\ [][NextLint]_vars

\* The warnings of ws whose rule id is in rules, in order.
RECURSIVE OfRules(_, _)
OfRules(ws, rules) ==
    IF ws = <<>> THEN <<>>
    ELSE (IF Head(ws).rule \in rules THEN <<Head(ws)>> ELSE <<>>)
         \o OfRules(Tail(ws), rules)

\* What each text is to the parser and the tokenizer.
ParseTreeOf == [t \in LintTexts |-> ParseTree(t)]

TokensOf == [t \in LintTexts |-> tokenize_with_location(t)]

\* C12: whether or not the text parses, the keyword-case warnings of lint are
\* those of the token rule alone (none under policy Ignore) and its
\* trailing-semicolon warnings those of the text rule alone (none when
\* disabled), whatever the tree rules' switches; and for a text that fails to
\* parse, lint emits no no-select-star and no require-table-alias warning.
C12_RulesIndependentOfParse ==
    lpc = "done" =>
        /\ OfRules(warnings, {"keyword-case"}) =
              IF config.keyword_case = "Ignore" THEN <<>>
              ELSE check_keyword_case(lsql, config.keyword_case)
        /\ OfRules(warnings, {"trailing-semicolon"}) =
              IF config.trailing_semicolon THEN check_trailing_semicolon(lsql)
              ELSE <<>>
        /\ ~ParseTreeOf[lsql].ok =>
              OfRules(warnings, {"no-select-star", "require-table-alias"}) = <<>>

C12_Witness ==
    /\ lpc = "done"
    /\ lsql = "select *\nFROM"
    /\ config = [keyword_case |-> "Upper", no_select_star |-> TRUE,
                 require_table_alias |-> TRUE, trailing_semicolon |-> TRUE]
    /\ Len(warnings) = 2
    /\ warnings[1].rule = "keyword-case" /\ warnings[2].rule = "trailing-semicolon"

\* The number of wildcard items, qualified or not, in the projections of the
\* statements of a tree.
RECURSIVE WildcardCount(_)
WildcardCount(statements) ==
    IF statements = <<>> THEN 0
    ELSE Cardinality({i \in 1..Len(Head(statements).projection) :
                        Head(statements).projection[i]
                            \in {"wildcard", "qualified_wildcard"}})
         + WildcardCount(Tail(statements))

\* C13: with no-select-star enabled and a text that parses, lint emits one
\* no-select-star warning for each wildcard, qualified or not, in the projection
\* of each statement, and none otherwise: one for "SELECT * FROM users;" and
\* none for "SELECT id, name FROM users;".
C13_NoSelectStar ==
    lpc = "done" =>
        /\ Len(OfRules(warnings, {"no-select-star"})) =
              IF config.no_select_star /\ ParseTreeOf[lsql].ok
              THEN WildcardCount(ParseTreeOf[lsql].statements)
              ELSE 0
        /\ (config.no_select_star /\ lsql = ScenarioC_Star)
              => Len(OfRules(warnings, {"no-select-star"})) = 1
        /\ (config.no_select_star /\ lsql = ScenarioC_NoStar)
              => Len(OfRules(warnings, {"no-select-star"})) = 0

C13_Witness ==
    /\ lpc = "done"
    /\ config.no_select_star
    /\ lsql = "SELECT t.*, *\nFROM t;\n"
    /\ Len(OfRules(warnings, {"no-select-star"})) = 2

\* The number of the last line of a text.
LastLineNumber(s) == CountChar(s, "\n") + (IF ends_with(s, "\n") THEN 0 ELSE 1)

\* C14: with trailing-semicolon enabled, a text whose content trimmed of
\* whitespace is non-empty and does not end with ";" gets exactly one
\* trailing-semicolon warning, on the last line of the text; every other text
\* gets none.
C14_TrailingSemicolonLint ==
    (lpc = "done" /\ config.trailing_semicolon) =>
        LET found == OfRules(warnings, {"trailing-semicolon"}) IN
        IF trim(lsql) # "" /\ ~ends_with(trim(lsql), ";")
        THEN Len(found) = 1 /\ found[1].line = LastLineNumber(lsql)
        ELSE found = <<>>

C14_Witness ==
    /\ lpc = "done"
    /\ config.trailing_semicolon
    /\ lsql = "SELECT id\nFROM t \n"
    /\ OfRules(warnings, {"trailing-semicolon"})
          = <<LintError("trailing-semicolon", 2, 7, "", "")>>

\* The <<text, expected text>> pairs the policy asks for, token by token: one
\* for each word token, quote-delimited or not, whose text is a reserved keyword
\* and is not all upper-case (Upper) or not all lower-case (Lower).
RECURSIVE ExpectedKeywordWarnings(_, _)
ExpectedKeywordWarnings(tokens, policy) ==
    IF tokens = <<>> THEN <<>>
    ELSE LET v == Head(tokens).value
             offends ==
                 /\ Head(tokens).kind = "word"
                 /\ to_uppercase(v) \in KEYWORDS
                 /\ \/ policy = "Upper" /\ \E i \in 1..Len(v) : Char(v, i) \notin UppercaseSet
                    \/ policy = "Lower" /\ \E i \in 1..Len(v) : Char(v, i) \notin LowercaseSet
         IN  (IF offends
              THEN <<<<v, IF policy = "Upper" THEN to_uppercase(v) ELSE to_lowercase(v)>>>>
              ELSE <<>>)
             \o ExpectedKeywordWarnings(Tail(tokens), policy)

\* C15: for every reserved-keyword word token, policy Upper emits a keyword-case
\* warning exactly when not all of its characters are upper-case, policy Lower
\* exactly when not all are lower-case, and policy Ignore never; the warning
\* carries the token's text converted to the policy's case.
C15_KeywordCaseLint ==
    lpc = "done" =>
        LET found == OfRules(warnings, {"keyword-case"}) IN
        /\ config.keyword_case = "Ignore" => found = <<>>
        /\ config.keyword_case # "Ignore" =>
              [i \in 1..Len(found) |-> <<found[i].found, found[i].expected>>]
                 = ExpectedKeywordWarnings(TokensOf[lsql].tokens, config.keyword_case)

C15_Witness ==
    /\ lpc = "done"
    /\ config.keyword_case = "Lower"
    /\ lsql = "Select id\nFROM t"
    /\ LET found == OfRules(warnings, {"keyword-case"}) IN
          /\ Len(found) = 2
          /\ found[1].found = "Select" /\ found[1].expected = "select"
          /\ found[2].found = "FROM" /\ found[2].expected = "from"

-----------------------------------------------------------------------------
(* Specification SpecRun: the check, fix and lint commands over the files  *)

\* The configurations the lint command builds from its arguments
\* (checker.rs:352-364): keyword_case from --keyword-case ("upper", "lower",
\* "ignore"; any other value reads as upper), no_select_star and
\* require_table_alias from their flags; trailing_semicolon is always on.
RunConfigs ==
    {[keyword_case |-> k, no_select_star |-> s,
      require_table_alias |-> a, trailing_semicolon |-> TRUE] :
        k \in {"Upper", "Lower", "Ignore"}, s \in BOOLEAN, a \in BOOLEAN}

\* checker.rs:96-109: the number of errors check_sql returns, none for a text
\* that parses and one for a text that does not.
SyntaxErrorCount(text) == IF ParseSql(text) THEN 0 ELSE 1

\* A read failure that skips the file and goes on with the next one.
ReadFailure_SkipFile(file) == [run |-> "running", next_file |-> file + 1]

\* checker.rs:124-125, 370-371: read_to_string fails and `?` returns the error
\* from the command, leaving the loop at the file.
ReadFailure(file) == [run |-> "error", next_file |-> file]

\* An end of run that reports success whatever was counted.
ExitStatus_AlwaysOk(count) == "ok"

\* checker.rs:169-173, 394-398: exit(1) when the count is positive, Ok(())
\* otherwise.
ExitStatus(count) == IF count > 0 THEN "failed" ELSE "ok"

InitRun ==
    /\ mode \in {"check", "fix", "lint"}
    /\ \E n \in 0..MaxFiles :
         /\ original \in [1..n -> FileTexts]
         /\ perm \in [1..n -> IF mode = "fix" THEN {"ok", "unreadable", "readonly"}
                               ELSE {"ok", "unreadable"}]
    /\ disk = original
    /\ dry_run \in (IF mode = "fix" THEN BOOLEAN ELSE {FALSE})
    /\ format \in (IF mode = "fix" THEN {"summary", "diff"} ELSE {"summary"})
    /\ config \in (IF mode = "lint" THEN RunConfigs ELSE {DefaultLintConfig})
    /\ next_file = 1
    /\ printed = <<>>
    /\ run = "running"
    /\ total = 0
    /\ lsql = "" /\ warnings = <<>> /\ lpc = "idle"
    /\ FixContentIdle
    /\ HintsIdle
    /\ PosIdle
    /\ ReplIdle

\* checker.rs:115-118, 347-350: no file was collected
NoFiles ==
    /\ mode \in {"check", "lint"}
    /\ run = "running" /\ Len(original) = 0
    /\ run' = "ok"
    /\ printed' = Append(printed, [kind |-> "no_files", file |-> 0])
    /\ UNCHANGED <<original, disk, perm, dry_run, format, next_file, mode, total,
                   fixContentVars, hintVars, lintVars, posVars, replVars>>

\* checker.rs:123-165: one iteration of the loop of check. The lines printed
\* for a file with an error (the error, its hint, the highlighted source) are
\* one event.
CheckFile ==
    /\ mode = "check"
    /\ run = "running" /\ next_file <= Len(original)
    /\ \E file \in {next_file} :
         \/ /\ perm[file] = "unreadable"
            /\ run' = ReadFailure(file).run
            /\ next_file' = ReadFailure(file).next_file
            /\ UNCHANGED <<printed, total>>
         \/ /\ perm[file] # "unreadable"
            /\ \E errors \in {SyntaxErrorCount(disk[file])} :
                 /\ printed' = Append(printed,
                       [kind |-> IF errors = 0 THEN "file_ok" ELSE "file_error",
                        file |-> file])
                 /\ total' = total + errors
            /\ next_file' = next_file + 1
            /\ UNCHANGED run
    /\ UNCHANGED <<original, disk, perm, dry_run, format, mode,
                   fixContentVars, hintVars, lintVars, posVars, replVars>>

\* checker.rs:369-390: one iteration of the loop of lint
LintFile ==
    /\ mode = "lint"
    /\ run = "running" /\ next_file <= Len(original)
    /\ \E file \in {next_file} :
         \/ /\ perm[file] = "unreadable"
            /\ run' = ReadFailure(file).run
            /\ next_file' = ReadFailure(file).next_file
            /\ UNCHANGED <<printed, total>>
         \/ /\ perm[file] # "unreadable"
            /\ \E errors \in {lint(disk[file], config)} :
                 /\ printed' = Append(printed,
                       [kind |-> IF errors = <<>> THEN "file_ok" ELSE "file_warnings",
                        file |-> file])
                 /\ total' = total + Len(errors)
            /\ next_file' = next_file + 1
            /\ UNCHANGED run
    /\ UNCHANGED <<original, disk, perm, dry_run, format, mode,
                   fixContentVars, hintVars, lintVars, posVars, replVars>>

\* checker.rs:167-173, 392-398: the loop is over; the summary, then the exit
Summary ==
    /\ mode \in {"check", "lint"}
    /\ run = "running" /\ Len(original) > 0 /\ next_file > Len(original)
    /\ printed' = Append(printed, [kind |-> "summary", file |-> 0])
    /\ run' = ExitStatus(total)
    /\ UNCHANGED <<original, disk, perm, dry_run, format, next_file, mode, total,
                   fixContentVars, hintVars, lintVars, posVars, replVars>>

NextRun ==
    \/ FixNoFiles \/ FixFile \/ FixDone
    \/ NoFiles \/ CheckFile \/ LintFile \/ Summary

SpecRun == InitRun /\ [][NextRun]_vars

\* The files of the run that cannot be read.
Unreadable == {k \in 1..Len(original) : perm[k] = "unreadable"}

\* C16: in every mode the files are taken one at a time in collected order;
\* the step that reaches a file that cannot be read ends the run with an error
\* and prints, counts and writes nothing; from then on nothing changes; so the
\* loop never passes that file, no event is printed for it or for a later file,
\* they keep their content, no summary is printed and the run never ends with
\* success or with the failure status of a completed run.
C16_ReadFailureAbortsRun ==
    /\ [](\A k \in Unreadable :
            /\ next_file <= k
            /\ \A f \in k..Len(original) : EventsOf(f) = {} /\ disk[f] = original[f]
            /\ \A e \in 1..Len(printed) : printed[e].kind # "summary"
            /\ run \in {"running", "error", "panic"})
    /\ [][/\ next_file' \in {next_file, next_file + 1}
          /\ run # "error"
          /\ (next_file \in Unreadable) =>
                /\ run' = "error"
                /\ UNCHANGED <<disk, printed, next_file, total>>]_vars

C16_Witness ==
    /\ mode = "lint"
    /\ perm = <<"ok", "unreadable">>
    /\ original = <<"select id", "SELECT id;\n">>
    /\ run = "error"
    /\ next_file = 2
    /\ Len(printed) = 1 /\ printed[1].file = 1
    /\ total > 0

\* The files of a check run with a syntax error, and the files of a lint run
\* with a warning.
FilesWithSyntaxError == {f \in 1..Len(original) : ~ParseSql(original[f])}

\* Whether lint warns about a text under a configuration of the lint command.
HasWarning ==
    [tc \in FileTexts \X RunConfigs |-> lint(tc[1], tc[2]) # <<>>] @@ <<>>

FilesWithWarning == {f \in 1..Len(original) : HasWarning[<<original[f], config>>]}

\* C17: in a check or lint run every step on a readable file goes on to the
\* next file with the run still running, whatever the file held; and a run that
\* went through all its files ends with failure exactly when a file had a
\* syntax error (check) or a lint warning (lint).
C17_ExitStatus ==
    /\ [][(/\ mode \in {"check", "lint"}
           /\ run = "running" /\ next_file <= Len(original)
           /\ perm[next_file] # "unreadable")
          => (next_file' = next_file + 1 /\ run' = "running")]_vars
    /\ []((mode = "check" /\ run \in {"ok", "failed"})
             => (run = "failed" <=> FilesWithSyntaxError # {}))
    /\ []((mode = "lint" /\ run \in {"ok", "failed"})
             => (run = "failed" <=> FilesWithWarning # {}))
    /\ []((mode \in {"check", "lint"} /\ run \in {"ok", "failed"})
             => next_file = Len(original) + 1)

C17_Witness ==
    /\ mode = "check"
    /\ original = <<"select id as", "SELECT id;\n">>
    /\ run = "failed"
    /\ next_file = 3
    /\ total = 1
    /\ Len(printed) = 3
    /\ printed[1].kind = "file_error" /\ printed[2].kind = "file_ok"

-----------------------------------------------------------------------------
(* Specification SpecPos: the position mapper applied to one position      *)

\* Texts of up to MaxChars characters over a letter, a newline and a two-byte
\* character; lines and columns from 0 to one past the text's.
MaxChars == 4

PosAlphabet == {"a", "\n", E_ACUTE}

RECURSIVE Concat(_)
Concat(cs) == IF cs = <<>> THEN "" ELSE Head(cs) \o Concat(Tail(cs))

PosTexts ==
    {Concat(cs) : cs \in UNION {[1..n -> PosAlphabet] : n \in 0..MaxChars}}

InitPos ==
    /\ ptext \in PosTexts
    /\ pline \in 0..(CountChar(ptext, "\n") + 2)
    /\ pcol \in 0..(Len(ptext) + 2)
    /\ ptable = <<>> /\ pos = 0 /\ back = <<1, 1>>
    /\ ppc = "start"
    /\ FixContentIdle
    /\ FixRunIdle
    /\ HintsIdle
    /\ LintIdle
    /\ ReplIdle

\* checker.rs:221-229
BuildLineOffsets ==
    /\ ppc = "start"
    /\ ptable' = build_line_offsets(ptext)
    /\ ppc' = "built"
    /\ UNCHANGED <<ptext, pline, pcol, pos, back,
                   fixContentVars, fixRunVars, hintVars, lintVars, replVars>>

\* checker.rs:231-240
LocationToByteOffset ==
    /\ ppc = "built"
    /\ pos' = location_to_byte_offset(ptable, pline, pcol)
    /\ ppc' = "mapped"
    /\ UNCHANGED <<ptext, pline, pcol, ptable, back,
                   fixContentVars, fixRunVars, hintVars, lintVars, replVars>>

\* linter.rs:240-255
PosToLineCol ==
    /\ ppc = "mapped"
    /\ back' = pos_to_line_col(ptext, pos)
    /\ ppc' = "back"
    /\ UNCHANGED <<ptext, pline, pcol, ptable, pos,
                   fixContentVars, fixRunVars, hintVars, lintVars, replVars>>

NextPos == BuildLineOffsets \/ LocationToByteOffset \/ PosToLineCol

SpecPos == InitPos /\ [][NextPos]_vars

\* C18: the first entry of build_line_offsets(S) is 0, and line 1, column 1
\* maps to byte offset 0 with that table.
C18_FirstOffsetIsZero ==
    /\ ppc # "start" => ptable[1] = 0
    /\ (ppc \in {"mapped", "back"} /\ pline = 1 /\ pcol = 1) => pos = 0

C18_Witness ==
    /\ ppc = "mapped"
    /\ ptext = "\na"
    /\ pline = 1 /\ pcol = 1
    /\ ptable = <<0, 1>>
    /\ pos = 0

\* The positions of a text: every line of it with every column from 1 to the
\* line's length in characters plus 1.
ValidPositions(s) == {<<LineOf(s, i), ColumnOf(s, i)>> : i \in 1..(Len(s) + 1)}

\* C19 (as claimed): for every line of the text and every column from 1 to the
\* line's length plus 1, location_to_byte_offset followed by pos_to_line_col
\* gives the line and the column back.
C19_PositionRoundTrip ==
    (ppc = "back" /\ <<pline, pcol>> \in ValidPositions(ptext))
        => back = <<pline, pcol>>

\* C20: build_line_offsets returns a strictly increasing sequence that starts
\* with 0; every further entry is the offset just after a newline byte; there
\* is one entry more than there are newline bytes; and no entry is beyond the
\* length of the text in bytes.
C20_LineOffsetsShape ==
    ppc # "start" =>
        /\ ptable[1] = 0
        /\ \A i \in 1..(Len(ptable) - 1) : ptable[i] < ptable[i + 1]
        /\ \A i \in 2..Len(ptable) : Utf8(ptext)[ptable[i]] = "\n"
        /\ Len(ptable) = 1 + Cardinality({b \in 1..ByteLen(ptext) :
                                            Utf8(ptext)[b] = "\n"})
        /\ \A i \in 1..Len(ptable) : ptable[i] <= ByteLen(ptext)

C20_Witness ==
    /\ ppc = "built"
    /\ ptext = "^\n\na"
    /\ ptable = <<0, 3, 4>>

\* C21: with the table of the text, a line within the table and a column give
\* the line's entry plus the column less one; a line beyond the table gives the
\* last entry of the table; and every line and column, 0 included, gives an
\* offset (line 0 counts as line 1 and column 0 as column 1).
C21_LocationToByteOffset ==
    ppc \in {"mapped", "back"} =>
        /\ (pline \in 1..Len(ptable) /\ pcol >= 1)
              => pos = ptable[pline] + (pcol - 1)
        /\ pline > Len(ptable) => pos = ptable[Len(ptable)]
        /\ pline = 0 => pos = ptable[1] + (IF pcol = 0 THEN 0 ELSE pcol - 1)
        /\ (pline \in 1..Len(ptable) /\ pcol = 0) => pos = ptable[pline]
        /\ pos \in Nat

C21_Witness ==
    /\ ppc = "mapped"
    /\ ptext = "a\n^"
    /\ pline = 3 /\ pcol = 0
    /\ ptable = <<0, 2>>
    /\ pos = 2

\* C22 (as claimed): for every text and every line and column, a column beyond
\* the end of its line or of the text included, the offset
\* location_to_byte_offset returns is at most the length of the text.
C22_OffsetWithinDocument ==
    ppc \in {"mapped", "back"} => pos <= ByteLen(ptext)

-----------------------------------------------------------------------------
(* Specification SpecReplace: the replacement loop applied to one list     *)

\* Texts of up to MaxReplText characters over a letter and a two-byte
\* character, and lists of up to MaxRepl replacements recorded against the
\* text: each replaces one or two bytes between character boundaries by
\* nothing, one letter or three letters, and the list is in ascending offset
\* order with no two ranges overlapping.
MaxReplText == 4
MaxRepl == 2

ReplTexts ==
    {Concat(cs) : cs \in UNION {[1..n -> {"a", E_ACUTE}] : n \in 0..MaxReplText}}

ReplacementsOn(text) ==
    {r \in [offset : 0..ByteLen(text), len : 1..2, replacement : {"", "X", "XYZ"}] :
        /\ r.offset + r.len <= ByteLen(text)
        /\ IsCharBoundary(text, r.offset)
        /\ IsCharBoundary(text, r.offset + r.len)}

\* Ascending offsets, and each range ends where the next one starts or before.
NonOverlapping(replacements) ==
    \A i \in 1..(Len(replacements) - 1) :
        replacements[i].offset + replacements[i].len <= replacements[i + 1].offset

ReplLists(text) ==
    {l \in UNION {[1..n -> ReplacementsOn(text)] : n \in 0..MaxRepl} :
        NonOverlapping(l)}

InitReplace ==
    /\ rtext \in ReplTexts
    /\ rlist \in ReplLists(rtext)
    /\ rout = ""
    /\ rpc = "start"
    /\ FixContentIdle
    /\ FixRunIdle
    /\ HintsIdle
    /\ LintIdle
    /\ PosIdle

\* checker.rs:272-277
Replace ==
    /\ rpc = "start"
    /\ \E r \in {ApplyReplacements(rtext, rlist, Len(rlist))} :
         /\ rout' = r.text
         /\ rpc' = IF r.panic THEN "panicked" ELSE "applied"
    /\ UNCHANGED <<rtext, rlist, fixContentVars, fixRunVars, hintVars, lintVars, posVars>>

NextReplace == Replace

SpecReplace == InitReplace /\ [][NextReplace]_vars

\* The replacements from the i-th on applied from first to last, each at its
\* recorded offset moved by shift, the number of bytes the earlier ones added
\* to the text.
RECURSIVE ForwardApply(_, _, _, _)
ForwardApply(result, replacements, i, shift) ==
    IF i > Len(replacements) THEN result
    ELSE LET r == replacements[i]
             from == r.offset + shift
         IN  ForwardApply(replace_range(result, from, from + r.len, r.replacement).text,
                          replacements, i + 1,
                          shift + ByteLen(r.replacement) - r.len)

\* C23: for every list of pairwise non-overlapping replacements recorded
\* against the text, the loop of fix_content, which applies them from the
\* highest offset to the lowest, completes and leaves the text that the forward
\* application with adjusted offsets gives, whether or not a replacement has
\* the length of what it replaces.
C23_ReverseOrderReplacement ==
    rpc # "start" =>
        /\ rpc = "applied"
        /\ rout = ForwardApply(rtext, rlist, 1, 0)

C23_Witness ==
    /\ rpc = "applied"
    /\ rtext = "a^a"
    /\ rlist = <<[offset |-> 0, len |-> 1, replacement |-> "XYZ"],
                 [offset |-> 1, len |-> 2, replacement |-> ""]>>
    /\ rout = "XYZa"

-----------------------------------------------------------------------------
(* The replacements of one fix pass                                         *)

\* checker.rs:249-270: the replacements the keyword pass collects for a text,
\* none when the tokenizer fails.
ReplacementsOf(text) ==
    LET tokenized == tokenize_with_location(text) IN
    IF tokenized.ok
    THEN CollectReplacements(tokenized.tokens, 1, build_line_offsets(text))
    ELSE <<>>

\* C24 (as claimed): the replacements collected by one fix pass are in
\* ascending offset order and no two of their byte ranges
\* [offset, offset + len) overlap.
C24_ReplacementsNonOverlapping ==
    pc # "start" => NonOverlapping(ReplacementsOf(content))

-----------------------------------------------------------------------------
(* The corrector and the linter on the same text                           *)

\* The configuration under which lint looks for what fix_content corrects.
FixLintConfig ==
    [keyword_case |-> "Upper", no_select_star |-> FALSE,
     require_table_alias |-> FALSE, trailing_semicolon |-> TRUE]

\* C25 (as claimed): for every text that tokenizes, lint of the text
\* fix_content returns, with keyword_case Upper and trailing_semicolon enabled,
\* has no keyword-case warning and no trailing-semicolon warning.
C25_FixAndLintAgree ==
    (Returned /\ content \notin TokenizerFails) =>
        OfRules(lint(out, FixLintConfig), {"keyword-case", "trailing-semicolon"}) = <<>>

-----------------------------------------------------------------------------
(* The locations of the warnings                                           *)

\* C26 (as claimed): every warning lint returns has a line of at least 1 and a
\* column of at least 1, whatever the rule, the text and the configuration.
C26_WarningLocationsOneBased ==
    lpc = "done" =>
        \A i \in 1..Len(warnings) : warnings[i].line >= 1 /\ warnings[i].column >= 1

-----------------------------------------------------------------------------
(* The lines analyze_error reads                                           *)

\* hints.rs:32-71: the 1-based numbers of the lines analyze_error indexes
\* `lines` with: the lines the backward scan visits (from the error line down
\* to the keyword line, or to line 1), the line before the keyword line, and,
\* when that one gave no hint, the line before the error line.
LinesRead(msg, ls, line) ==
    IF contains(msg, "Expected:") /\ contains(msg, "found:")
       /\ line > 1 /\ line <= Len(ls)
    THEN LET kw_line == ScanKeywordLine(ls, line)
             scanned == (IF kw_line = 0 THEN 1 ELSE kw_line)..line
             before_keyword == IF kw_line > 1 THEN {kw_line - 1} ELSE {}
             before_error ==
                 IF kw_line > 1 /\ ends_with(trim(ls[kw_line - 1]), ",")
                 THEN {}
                 ELSE {line - 1}
         IN  scanned \cup before_keyword \cup before_error
    ELSE {}

\* C27: for every message, source and error line, 0 and a line beyond the last
\* included, every line analyze_error reads is a line of the source; and a
\* hint with a suspect line names a line from 1 to the line before the error
\* line, the error line is a line of the source, and the named line, trimmed,
\* ends with a comma.
C27_SuspectLineWithinSource ==
    hpc = "done" =>
        /\ LinesRead(error_msg, SourceLines, error_line) \subseteq 1..Len(SourceLines)
        /\ hint.suspect_line # 0 =>
              /\ 1 <= hint.suspect_line
              /\ hint.suspect_line < error_line
              /\ error_line <= Len(SourceLines)
              /\ ends_with(trim(SourceLines[hint.suspect_line]), ",")

C27_Witness ==
    /\ hpc = "done"
    /\ source = "SELECT\n  id,\nWHERE ("
    /\ error_line = 3
    /\ error_msg = "Expected: ), found: ,"
    /\ hint.suspect_line = 2
    /\ LinesRead(error_msg, SourceLines, error_line) = {2, 3}

=============================================================================
